---- MODULE Spec2Model ----
(***************************************************************************)
(* Model of src/plugins/typescript/visitor.ts: the Visitor that maps a     *)
(* typedoc reflection graph to documentalist's ITs* document entries.      *)
(*                                                                         *)
(* Encoding of JavaScript values:                                          *)
(*   - an optional value (undefined / present) is a sequence of length 0   *)
(*     or 1: None, Some(v);                                                *)
(*   - a string is the sequence of its tokens, a token being one white     *)
(*     space character or a white-space-free word; concatenation is \o;    *)
(*   - a file path is the sequence of its segments.                        *)
(***************************************************************************)
EXTENDS Integers, Sequences, FiniteSets, TLC

\* Most top-level reflections in a generated project.
MaxTop == 2
\* Most calls of visitProject on one Visitor.
MaxVisits == 2

None == <<>>
Some(v) == <<v>>
IsSome(o) == o # <<>>
Get(o) == o[1]

Last(s) == s[Len(s)]
Front(s) == SubSeq(s, 1, Len(s) - 1)

(***************************************************************************)
(* Strings                                                                 *)
(***************************************************************************)
IsSpace(c) == c \in {" ", "\n", "\t"}

RECURSIVE TrimStart(_)
TrimStart(s) ==
    IF s = <<>> THEN s
    ELSE IF IsSpace(Head(s)) THEN TrimStart(Tail(s)) ELSE s

RECURSIVE TrimEnd(_)
TrimEnd(s) ==
    IF s = <<>> THEN s
    ELSE IF IsSpace(Last(s)) THEN TrimEnd(Front(s)) ELSE s

\* String.prototype.trim
Trim(s) == TrimEnd(TrimStart(s))

\* Array.prototype.join
RECURSIVE Join(_, _)
Join(lines, sep) ==
    IF lines = <<>> THEN <<>>
    ELSE IF Len(lines) = 1 THEN lines[1]
    ELSE lines[1] \o sep \o Join(Tail(lines), sep)

\* tags.find(tag => tag.tagName === tagName): the first such tag, or undefined
RECURSIVE FindTag(_, _)
FindTag(tags, tagName) ==
    IF tags = <<>> THEN None
    ELSE IF Head(tags).tagName = tagName THEN Some(Head(tags))
    ELSE FindTag(Tail(tags), tagName)

(***************************************************************************)
(* Collaborators                                                           *)
(***************************************************************************)
\* process.cwd()
Cwd == <<"repo">>

RECURSIVE CommonPrefixLen(_, _)
CommonPrefixLen(a, b) ==
    IF a = <<>> \/ b = <<>> THEN 0
    ELSE IF Head(a) = Head(b) THEN 1 + CommonPrefixLen(Tail(a), Tail(b)) ELSE 0

\* path.relative(from, to) on absolute, normalised paths
relative(from, to) ==
    LET n == CommonPrefixLen(from, to)
    IN  [i \in 1..(Len(from) - n) |-> ".."] \o SubSeq(to, n + 1, Len(to))

\* ICompiler.renderBlock: the block is opaque and carries the text it was given
renderBlock(text) == [contents |-> text]

\* typestring.resolveTypeString: the display string of a type reference
resolveTypeString(type) == <<"type:", type>>

\* typestring.resolveSignature: the display string of a whole call signature
resolveSignature(sig) ==
    LET parameters == IF IsSome(sig.parameters) THEN Get(sig.parameters) ELSE <<>>
    IN  <<"(">>
        \o Join([i \in 1..Len(parameters) |->
                    <<parameters[i].name, ":", parameters[i].type>>], <<",">>)
        \o <<")", "=>", sig.type>>

(***************************************************************************)
(* Module-level functions of visitor.ts                                    *)
(***************************************************************************)
getCommentTag(comment, tagName) ==
    IF comment = None \/ Get(comment).tags = None THEN None
    ELSE FindTag(Get(Get(comment).tags), tagName)

getDefaultValueSwapped(ref) ==
    LET defaultValue == getCommentTag(ref.comment, "default")
    IN  IF defaultValue # None THEN Some(Trim(Get(defaultValue).text))
        ELSE IF ref.defaultValue # None THEN ref.defaultValue
        ELSE None

getDefaultValue(ref) ==
    IF ref.defaultValue # None THEN ref.defaultValue
    ELSE LET defaultValue == getCommentTag(ref.comment, "default")
         IN  IF defaultValue # None THEN Some(Trim(Get(defaultValue).text))
             ELSE None

getFileName(ref) ==
    LET sources  == IF ref.sources = None THEN <<>> ELSE Get(ref.sources)
        source   == IF sources = <<>> THEN None ELSE Some(sources[1])
        fileName == IF source # None /\ Get(source).file # None
                    THEN Get(Get(source).file).fullFileName
                    ELSE None
    IN  IF fileName # None THEN Some(relative(Cwd, Get(fileName))) ELSE None

\* The two shapes of a defined isDeprecated: the boolean true, or a string.
JsTrue == [type |-> "boolean", str |-> <<>>]
JsString(s) == [type |-> "string", str |-> s]

getIsDeprecatedUntrimmed(ref) ==
    LET deprecatedTag == getCommentTag(ref.comment, "deprecated")
    IN  IF deprecatedTag = None THEN None
        ELSE LET text == Get(deprecatedTag).text
             IN  Some(IF text = <<>> THEN JsTrue ELSE JsString(text))

getIsDeprecated(ref) ==
    LET deprecatedTag == getCommentTag(ref.comment, "deprecated")
    IN  IF deprecatedTag = None THEN None
        ELSE LET text == Trim(Get(deprecatedTag).text)
             IN  Some(IF text = <<>> THEN JsTrue ELSE JsString(text))

getFlags(ref) ==
    IF ref.flags = None THEN None
    ELSE LET flags == Get(ref.flags)
         IN  Some([isDeprecated |-> getIsDeprecated(ref),
                   isExported   |-> flags.isExported,
                   isExternal   |-> flags.isExternal,
                   isOptional   |-> flags.isOptional,
                   isPrivate    |-> flags.isPrivate,
                   isProtected  |-> flags.isProtected,
                   isPublic     |-> flags.isPublic,
                   isRest       |-> flags.isRest,
                   isStatic     |-> flags.isStatic])

(***************************************************************************)
(* Pure parts of the Visitor's methods                                     *)
(***************************************************************************)
BlankLine == <<"\n", "\n">>

\* renderComment, line 117: `@${tag.tagName} ${tag.text}` for each tag
tagLines(tags) == [i \in 1..Len(tags) |-> <<"@", tags[i].tagName, " ">> \o tags[i].text]

\* mutation: the tag filter of renderComment lets @deprecated through
documentationTextKeepingDeprecated(comment) ==
    (IF comment.shortText # <<>> THEN comment.shortText ELSE <<>>)
    \o (IF comment.text # <<>> THEN BlankLine \o comment.text ELSE <<>>)
    \o (IF comment.tags # None
        THEN BlankLine \o
             Join(tagLines(SelectSeq(Get(comment.tags),
                                     LAMBDA tag : tag.tagName # "default")),
                  <<"\n">>)
        ELSE <<>>)

\* renderComment, lines 105-119: the text handed to the renderer
documentationText(comment) ==
    (IF comment.shortText # <<>> THEN comment.shortText ELSE <<>>)
    \o (IF comment.text # <<>> THEN BlankLine \o comment.text ELSE <<>>)
    \o (IF comment.tags # None
        THEN BlankLine \o
             Join(tagLines(SelectSeq(Get(comment.tags),
                                     LAMBDA tag : tag.tagName # "default"
                                               /\ tag.tagName # "deprecated")),
                  <<"\n">>)
        ELSE <<>>)

renderComment(comment) ==
    IF comment = None THEN None
    ELSE Some(renderBlock(documentationText(Get(comment))))

\* mutation: a flag that is not false counts as exported
filterReflectionLoose(def, opts) ==
    Get(def.flags).isExported # Some(FALSE) \/ opts.includeNonExported = Some(TRUE)

\* defined only for a reflection that has flags; the actions raise the
\* TypeError of `def.flags.isExported` for one that has none
filterReflection(def, opts) ==
    Get(def.flags).isExported = Some(TRUE) \/ opts.includeNonExported = Some(TRUE)

makeDocEntry(def, kind) ==
    [documentation |-> renderComment(def.comment),
     fileName      |-> getFileName(def),
     flags         |-> getFlags(def),
     kind          |-> kind,
     name          |-> def.name]

\* visitProperty, lines 69-73
visitProperty(def) ==
    makeDocEntry(def, "Property")
    @@ [defaultValue |-> getDefaultValue(def),
        type         |-> resolveTypeString(def.type)]

\* visitParameter, lines 87-91
visitParameter(param) ==
    makeDocEntry(param, "Parameter")
    @@ [defaultValue |-> getDefaultValue(param),
        type         |-> resolveTypeString(param.type)]

\* visitSignature, lines 80-85, once its parameters have been visited
visitSignatureResult(sig, base, parameters) ==
    base @@ [parameters |-> parameters,
             returnType |-> resolveTypeString(sig.type),
             type       |-> resolveSignature(sig)]

\* visitMethod, lines 75-78, once its signatures have been visited
visitMethodResult(base, signatures) == base @@ [signatures |-> signatures]

\* visitInterface, lines 63-67, once its members have been visited
visitInterfaceResult(base, methods, properties) ==
    base @@ [methods |-> methods, properties |-> properties]

\* visitClass, lines 58-61: a copy of the interface entry with kind overridden
visitClassResult(interfaceEntry) == [kind |-> "Class"] @@ interfaceEntry

(***************************************************************************)
(* Reflection graphs the visitor is run on                                 *)
(***************************************************************************)
Flags(isExported) ==
    [isExported |-> isExported, isExternal |-> None, isOptional |-> None,
     isPrivate |-> None, isProtected |-> None, isPublic |-> None,
     isRest |-> None, isStatic |-> None]

PublicFlags(isExported) ==
    [Flags(isExported) EXCEPT !.isPublic = Some(TRUE), !.isStatic = Some(FALSE),
                              !.isOptional = Some(TRUE)]

Tag(tagName, text) == [tagName |-> tagName, text |-> text]
Comment(shortText, text, tags) ==
    [shortText |-> shortText, text |-> text, tags |-> tags]

SourceIn(fullFileName) == [file |-> Some([fullFileName |-> fullFileName])]
InRepo  == Some(<<SourceIn(Some(<<"repo", "src", "a.ts">>)), SourceIn(Some(<<"x.ts">>))>>)
Outside == Some(<<SourceIn(Some(<<"lib", "b.d.ts">>))>>)
NoFile  == Some(<<[file |-> None]>>)

Parameter(name, flags, comment, defaultValue, sources) ==
    [name |-> name, kind |-> "Parameter", flags |-> flags, comment |-> comment,
     defaultValue |-> defaultValue, type |-> "number", sources |-> sources]

Signature(name, flags, comment, parameters, sources) ==
    [name |-> name, kind |-> "CallSignature", flags |-> flags,
     comment |-> comment, parameters |-> parameters, type |-> "string",
     sources |-> sources]

Property(name, flags, comment, defaultValue, sources) ==
    [name |-> name, kind |-> "Property", flags |-> flags, comment |-> comment,
     defaultValue |-> defaultValue, type |-> "boolean", signatures |-> None,
     sources |-> sources]

Method(name, flags, comment, signatures, sources) ==
    [name |-> name, kind |-> "Method", flags |-> flags, comment |-> comment,
     defaultValue |-> None, type |-> "function", signatures |-> signatures,
     sources |-> sources]

Container(kind, flags, comment, children, sources) ==
    [name |-> "", kind |-> kind, flags |-> flags, comment |-> comment,
     children |-> children, sources |-> sources]

Exported    == Some(Flags(Some(TRUE)))
NonExported == Some(Flags(Some(FALSE)))
Unflagged   == Some(Flags(None))

Summary == Some(Comment(<<"S">>, <<>>, None))

\* Texts of comment tags
TagsPool ==
    { None,
      Some(<<>>),
      Some(<<Tag("deprecated", <<>>)>>),
      Some(<<Tag("deprecated", <<" ", "\n">>)>>),
      Some(<<Tag("deprecated", <<" ", "use", " ", "bar", "\n">>)>>),
      Some(<<Tag("default", <<" ", " ", "42", " ", " ">>)>>),
      Some(<<Tag("deprecated", <<>>), Tag("param", <<"x:", " ", "the", " ", "value">>)>>),
      Some(<<Tag("param", <<"x">>), Tag("default", <<"1", "\n">>),
             Tag("deprecated", <<"old">>), Tag("returns", <<"y">>),
             Tag("deprecated", <<>>), Tag("default", <<"2">>)>>) }

CommentPool ==
    {None} \cup
    { Some(Comment(shortText, text, tags)) :
        shortText \in {<<>>, <<"S">>}, text \in {<<>>, <<"T">>}, tags \in TagsPool }

DefaultValuePool == {None, Some(<<"v">>), Some(<<>>)}

\* One interface whose every node carries the same comment and default value
DetailContainer(comment, defaultValue) ==
    Container("Interface", Exported, comment,
        << Property("p", Some(PublicFlags(Some(TRUE))), comment, defaultValue, InRepo),
           Method("m", Exported, comment,
               Some(<< Signature("m", None, comment,
                         Some(<< Parameter("x", NonExported, comment, defaultValue, None) >>),
                         Outside) >>),
               InRepo) >>,
        InRepo)

ExportedMethod ==
    Method("run", Exported, Summary,
        Some(<< Signature("run", Exported, Summary,
                  Some(<< Parameter("a", Exported, None, None, None),
                          Parameter("b", NonExported, Summary, Some(<<"0">>), None),
                          Parameter("c", None, None, None, None),
                          Parameter("d", Unflagged, None, None, None) >>),
                  NoFile) >>),
        InRepo)

HiddenMethod ==
    Method("hide", NonExported, Summary,
        Some(<< Signature("hide", None, None,
                  Some(<< Parameter("e", Exported, Summary, None, None) >>), None) >>),
        None)

OverloadedMethod ==
    Method("over", Exported, None,
        Some(<< Signature("over", None, None, None, None),
                Signature("over", None, None, Some(<<>>), Some(<<>>)) >>),
        None)

\* Shapes of top-level reflections
FullShape(kind) ==
    Container(kind, Exported, Summary,
        << ExportedMethod,
           Property("hidden", NonExported, Summary, None, None),
           Property("shown", Exported, None, Some(<<"1">>), InRepo),
           HiddenMethod,
           Property("bare", Unflagged, Summary, None, None),
           OverloadedMethod >>,
        InRepo)

HiddenShape(kind) ==
    Container(kind, NonExported, Summary,
        << Property("inner", Exported, Summary, None, None), ExportedMethod >>, None)

UnflaggedShape(kind) ==
    Container(kind, Unflagged, None,
        << Property("q", Exported, None, None, Some(<<>>)) >>, Some(<<>>))

\* a property without flags: `def.flags.isExported` has nothing to read
NoMemberFlagsShape(kind) ==
    Container(kind, Exported, None,
        << ExportedMethod, Property("ok", Exported, None, None, None),
           Property("raw", None, None, None, None) >>, None)

\* a method without a signature list: `def.signatures.map` has nothing to call
NoSignaturesShape(kind) ==
    Container(kind, Exported, Summary,
        << Method("abstract", Exported, None, None, None) >>, None)

\* a top-level reflection without flags
NoFlagsShape(kind) == Container(kind, None, None, <<>>, None)

\* top-level reflections the generated projects are made of
ContainerPool ==
    { FullShape("Interface"), FullShape("Class"), HiddenShape("Class"),
      UnflaggedShape("Interface"),
      Container("Enumeration", Exported, Summary, <<>>, None) }

\* top-level reflections with a piece of data missing that the code reads unguarded
FaultyPool ==
    { NoMemberFlagsShape("Interface"), NoMemberFlagsShape("Class"),
      NoSignaturesShape("Interface"), NoSignaturesShape("Class"),
      NoFlagsShape("Interface"), NoFlagsShape("Class") }

\* reflections are named after their position in the project
Named(reflections) ==
    [i \in 1..Len(reflections) |-> [reflections[i] EXCEPT !.name = "T" \o ToString(i)]]

StructureProjects ==
    UNION { { [reflections |-> Named(r)] : r \in [1..n -> ContainerPool] } : n \in 0..MaxTop }

DetailProjects ==
    { [reflections |-> Named(<<DetailContainer(comment, defaultValue)>>)] :
        comment \in CommentPool, defaultValue \in DefaultValuePool }

FaultyProjects ==
    { [reflections |-> Named(<<faulty>>)] : faulty \in FaultyPool }
    \cup { [reflections |-> Named(<<FullShape("Interface"), faulty>>)] : faulty \in FaultyPool }

OptionsPool == { [includeNonExported |-> v] : v \in {None, Some(TRUE), Some(FALSE)} }

(***************************************************************************)
(* State                                                                   *)
(***************************************************************************)
VARIABLES
    project,      \* the reflection graph handed to visitProject
    options,      \* Visitor.options
    pc,           \* "idle", "running", "returned" or "threw"
    stack,        \* call stack of the running visitProject, innermost last
    visits,       \* number of visitProject calls made so far
    outcome,      \* how the latest finished call ended, and its return value
    prevOutcome,  \* the same for the call before it
    events,       \* history: entries started and completed by the running call
    rendered      \* history: the renderBlock calls of the running call

vars == <<project, options, pc, stack, visits, outcome, prevOutcome, events, rendered>>

\* A reflection is referred to by its position in the graph.
NodeAt(path) ==
    LET top == project.reflections[path[1]]
    IN  IF Len(path) = 1 THEN top
        ELSE LET member == top.children[path[2]]
             IN  IF Len(path) = 2 THEN member
                 ELSE LET sig == Get(member.signatures)[path[3]]
                      IN  IF Len(path) = 3 THEN sig
                          ELSE Get(sig.parameters)[path[4]]

Indexes(parent, n) == [i \in 1..n |-> Append(parent, i)]

\* ProjectReflection.getReflectionsByKind
getReflectionsByKind(kind) ==
    SelectSeq(Indexes(<<>>, Len(project.reflections)),
              LAMBDA p : NodeAt(p).kind = kind)

\* ContainerReflection.getChildrenByKind
getChildrenByKind(path, kind) ==
    SelectSeq(Indexes(path, Len(NodeAt(path).children)),
              LAMBDA p : NodeAt(p).kind = kind)

\* mutation: visitChildren maps every child
visitChildrenUnfiltered(children) == children

\* visitChildren, line 95: children.filter(this.filterReflection)
visitChildrenFilter(children) ==
    SelectSeq(children, LAMBDA p : filterReflection(NodeAt(p), options))

\* mutation: the parameters go through visitChildren like the members do
signatureParametersFiltered(path) ==
    LET all == IF NodeAt(path).parameters = None THEN <<>>
               ELSE Indexes(path, Len(Get(NodeAt(path).parameters)))
    IN  SelectSeq(all, LAMBDA p : NodeAt(p).flags # None
                                  /\ filterReflection(NodeAt(p), options))

\* visitSignature, line 82: (sig.parameters || [])
signatureParameters(path) ==
    IF NodeAt(path).parameters = None THEN <<>>
    ELSE Indexes(path, Len(Get(NodeAt(path).parameters)))

\* mutation: the classes are visited before the interfaces
visitProjectPassesClassesFirst ==
    << [kind |-> "Class", visitor |-> "visitClass"],
       [kind |-> "Interface", visitor |-> "visitInterface"] >>

\* visitProject, lines 40-44: the two visitChildren calls, in order
visitProjectPasses ==
    << [kind |-> "Interface", visitor |-> "visitInterface"],
       [kind |-> "Class", visitor |-> "visitClass"] >>

\* mutation: the classes are put in front
visitProjectResultClassesFirst(interfaces, classes) == classes \o interfaces

\* mutation: the Visitor appends to an array it keeps between calls
visitProjectResultKept(interfaces, classes) ==
    (IF outcome.status = "returned" THEN outcome.value ELSE <<>>)
    \o interfaces \o classes

\* visitProject, line 45
visitProjectResult(interfaces, classes) == interfaces \o classes

Frame(fn, path, stage, base, todo, visitor) ==
    [fn |-> fn, path |-> path, stage |-> stage, base |-> base,
     first |-> <<>>, second |-> <<>>, todo |-> todo, visitor |-> visitor]

Top == stack[Len(stack)]
Below == stack[Len(stack) - 1]
ReplaceTop(frame) == [stack EXCEPT ![Len(stack)] = frame]

Event(ev, fn, path, entry) == [ev |-> ev, fn |-> fn, path |-> path, entry |-> entry]

\* the renderBlock call that makeDocEntry(def) makes, if it makes one
RenderCalls(path) ==
    IF NodeAt(path).comment = None THEN <<>>
    ELSE << [path |-> path, text |-> documentationText(Get(NodeAt(path).comment))] >>

NoOutcome == [status |-> "none", value |-> <<>>]

Init ==
    /\ project \in StructureProjects \cup DetailProjects \cup FaultyProjects
    /\ options \in OptionsPool
    /\ pc = "idle"
    /\ stack = <<>>
    /\ visits = 0
    /\ outcome = NoOutcome
    /\ prevOutcome = NoOutcome
    /\ events = <<>>
    /\ rendered = <<>>

(***************************************************************************)
(* Actions                                                                 *)
(***************************************************************************)
\* a caller calls visitProject(project), line 39
CallVisitProject ==
    /\ pc \in {"idle", "returned", "threw"}
    /\ visits < MaxVisits
    /\ pc' = "running"
    /\ visits' = visits + 1
    /\ stack' = << Frame("visitProject", <<>>, 1, None, <<>>, "") >>
    /\ prevOutcome' = outcome
    /\ events' = <<>>
    /\ rendered' = <<>>
    /\ UNCHANGED <<project, options, outcome>>

\* the children the frame on top hands to visitChildren next, and the visitor
PendingChildren ==
    IF Top.fn = "visitProject"
    THEN [children |-> getReflectionsByKind(visitProjectPasses[Top.stage].kind),
          visitor  |-> visitProjectPasses[Top.stage].visitor]
    ELSE IF Top.stage = "methods"
    THEN [children |-> getChildrenByKind(Top.path, "Method"), visitor |-> "visitMethod"]
    ELSE [children |-> getChildrenByKind(Top.path, "Property"), visitor |-> "visitProperty"]

AtVisitChildren ==
    /\ pc = "running"
    /\ \/ Top.fn = "visitProject" /\ Top.stage \in 1..Len(visitProjectPasses)
       \/ Top.fn = "visitInterface" /\ Top.stage \in {"methods", "properties"}

\* visitChildren, line 95: the filter runs over all children before any is mapped
VisitChildren ==
    /\ AtVisitChildren
    /\ \A i \in 1..Len(PendingChildren.children) :
           NodeAt(PendingChildren.children[i]).flags # None
    /\ stack' = Append(stack, Frame("visitChildren", Top.path, "map", None,
                                     visitChildrenFilter(PendingChildren.children),
                                     PendingChildren.visitor))
    /\ UNCHANGED <<project, options, pc, visits, outcome, prevOutcome, events, rendered>>

\* filterReflection, line 124, on a reflection without flags: TypeError
VisitChildrenThrows ==
    /\ AtVisitChildren
    /\ \E i \in 1..Len(PendingChildren.children) :
           NodeAt(PendingChildren.children[i]).flags = None
    /\ pc' = "threw"
    /\ stack' = <<>>
    /\ outcome' = [status |-> "threw", value |-> <<>>]
    /\ UNCHANGED <<project, options, visits, prevOutcome, events, rendered>>

AtMap(visitor) ==
    /\ pc = "running"
    /\ Top.fn \in {"visitChildren", "map"}
    /\ Top.visitor = visitor
    /\ Top.todo # <<>>

Enter(fn, path, kind, stage) ==
    /\ stack' = Append(stack, Frame(fn, path, stage, Some(makeDocEntry(NodeAt(path), kind)),
                                     <<>>, ""))
    /\ events' = Append(events, Event("start", fn, path, None))
    /\ rendered' = rendered \o RenderCalls(path)
    /\ UNCHANGED <<project, options, pc, visits, outcome, prevOutcome>>

\* visitInterface, lines 63-64: called by map, or by visitClass
EnterInterface ==
    \/ /\ AtMap("visitInterface")
       /\ Enter("visitInterface", Head(Top.todo), "Interface", "methods")
    \/ /\ pc = "running"
       /\ Top.fn = "visitClass"
       /\ Top.stage = "inner"
       /\ Enter("visitInterface", Top.path, "Interface", "methods")

\* visitClass, lines 58-59
EnterClass ==
    /\ AtMap("visitClass")
    /\ stack' = Append(stack, Frame("visitClass", Head(Top.todo), "inner", None, <<>>, ""))
    /\ events' = Append(events, Event("start", "visitClass", Head(Top.todo), None))
    /\ UNCHANGED <<project, options, pc, visits, outcome, prevOutcome, rendered>>

\* visitMethod, lines 75-76
EnterMethod ==
    /\ AtMap("visitMethod")
    /\ Enter("visitMethod", Head(Top.todo), "Method", "signatures")

AtSignatures ==
    /\ pc = "running"
    /\ Top.fn = "visitMethod"
    /\ Top.stage = "signatures"

\* visitMethod, line 77: def.signatures.map(...)
MapSignatures ==
    /\ AtSignatures
    /\ NodeAt(Top.path).signatures # None
    /\ stack' = Append(stack, Frame("map", Top.path, "map", None,
                          Indexes(Top.path, Len(Get(NodeAt(Top.path).signatures))),
                          "visitSignature"))
    /\ UNCHANGED <<project, options, pc, visits, outcome, prevOutcome, events, rendered>>

\* visitMethod, line 77, on a method without a signature list: TypeError
MapSignaturesThrows ==
    /\ AtSignatures
    /\ NodeAt(Top.path).signatures = None
    /\ pc' = "threw"
    /\ stack' = <<>>
    /\ outcome' = [status |-> "threw", value |-> <<>>]
    /\ UNCHANGED <<project, options, visits, prevOutcome, events, rendered>>

\* visitSignature, lines 80-81
EnterSignature ==
    /\ AtMap("visitSignature")
    /\ Enter("visitSignature", Head(Top.todo), "Signature", "parameters")

\* visitSignature, line 82: (sig.parameters || []).map(...)
MapParameters ==
    /\ pc = "running"
    /\ Top.fn = "visitSignature"
    /\ Top.stage = "parameters"
    /\ stack' = Append(stack, Frame("map", Top.path, "map", None,
                                     signatureParameters(Top.path), "visitParameter"))
    /\ UNCHANGED <<project, options, pc, visits, outcome, prevOutcome, events, rendered>>

Leaf(fn, entry) ==
    LET path == Head(Top.todo)
    IN  /\ stack' = ReplaceTop([Top EXCEPT !.first = Append(@, entry), !.todo = Tail(@)])
        /\ events' = events \o << Event("start", fn, path, None),
                                  Event("complete", fn, path, Some(entry)) >>
        /\ rendered' = rendered \o RenderCalls(path)
        /\ UNCHANGED <<project, options, pc, visits, outcome, prevOutcome>>

\* visitProperty, lines 69-73, as the callback of map
VisitProperty ==
    /\ AtMap("visitProperty")
    /\ Leaf("visitProperty", visitProperty(NodeAt(Head(Top.todo))))

\* visitParameter, lines 87-91, as the callback of map
VisitParameter ==
    /\ AtMap("visitParameter")
    /\ Leaf("visitParameter", visitParameter(NodeAt(Head(Top.todo))))

\* map has gone through the array: its result becomes a field of the caller
ReturnList ==
    /\ pc = "running"
    /\ Top.fn \in {"visitChildren", "map"}
    /\ Top.todo = <<>>
    /\ LET caller == Below
           list == Top.first
           after ==
               IF caller.fn = "visitProject"
               THEN IF visitProjectPasses[caller.stage].kind = "Interface"
                    THEN [caller EXCEPT !.first = list, !.stage = @ + 1]
                    ELSE [caller EXCEPT !.second = list, !.stage = @ + 1]
               ELSE IF caller.fn = "visitInterface" /\ caller.stage = "methods"
               THEN [caller EXCEPT !.first = list, !.stage = "properties"]
               ELSE IF caller.fn = "visitInterface"
               THEN [caller EXCEPT !.second = list, !.stage = "return"]
               ELSE [caller EXCEPT !.first = list, !.stage = "return"]
       IN  stack' = Append(SubSeq(stack, 1, Len(stack) - 2), after)
    /\ UNCHANGED <<project, options, pc, visits, outcome, prevOutcome, events, rendered>>

\* the entry a visit* frame returns once all its fields are evaluated
ReturnValue(frame) ==
    IF frame.fn = "visitInterface"
    THEN visitInterfaceResult(Get(frame.base), frame.first, frame.second)
    ELSE IF frame.fn = "visitClass"
    THEN visitClassResult(frame.first[1])
    ELSE IF frame.fn = "visitMethod"
    THEN visitMethodResult(Get(frame.base), frame.first)
    ELSE visitSignatureResult(NodeAt(frame.path), Get(frame.base), frame.first)

\* visitInterface, visitClass, visitMethod or visitSignature returns its entry
ReturnEntry ==
    /\ pc = "running"
    /\ Top.fn \in {"visitInterface", "visitClass", "visitMethod", "visitSignature"}
    /\ Top.stage = "return"
    /\ LET entry == ReturnValue(Top)
           caller == Below
           after ==
               IF caller.fn = "visitClass"
               THEN [caller EXCEPT !.first = <<entry>>, !.stage = "return"]
               ELSE [caller EXCEPT !.first = Append(@, entry), !.todo = Tail(@)]
       IN  /\ stack' = Append(SubSeq(stack, 1, Len(stack) - 2), after)
           /\ events' = Append(events, Event("complete", Top.fn, Top.path, Some(entry)))
    /\ UNCHANGED <<project, options, pc, visits, outcome, prevOutcome, rendered>>

\* visitProject, line 45
ReturnProject ==
    /\ pc = "running"
    /\ Top.fn = "visitProject"
    /\ Top.stage = Len(visitProjectPasses) + 1
    /\ pc' = "returned"
    /\ stack' = <<>>
    /\ outcome' = [status |-> "returned",
                   value  |-> visitProjectResult(Top.first, Top.second)]
    /\ UNCHANGED <<project, options, visits, prevOutcome, events, rendered>>

Next ==
    \/ CallVisitProject
    \/ VisitChildren
    \/ VisitChildrenThrows
    \/ EnterInterface
    \/ EnterClass
    \/ EnterMethod
    \/ MapSignatures
    \/ MapSignaturesThrows
    \/ EnterSignature
    \/ MapParameters
    \/ VisitProperty
    \/ VisitParameter
    \/ ReturnList
    \/ ReturnEntry
    \/ ReturnProject

Spec == Init /\ [][Next]_vars

(***************************************************************************)
(* Vocabulary of the properties                                            *)
(***************************************************************************)
Names(entries) == [i \in 1..Len(entries) |-> entries[i].name]
NamesAt(paths) == [i \in 1..Len(paths) |-> NodeAt(paths[i]).name]
Elements(seq) == {seq[i] : i \in 1..Len(seq)}

EventIndexes == 1..Len(events)
RenderIndexes == 1..Len(rendered)

\* positions in the history of the entries completed so far
Completions == {n \in EventIndexes : events[n].ev = "complete"}

IsExportedTrue(path) ==
    NodeAt(path).flags # None /\ Get(NodeAt(path).flags).isExported = Some(TRUE)

\* the filtering rule as the documentation states it
PassesRule(path) ==
    IsExportedTrue(path) \/ options.includeNonExported = Some(TRUE)

ChildrenOfKind(path, kind) ==
    SelectSeq(Indexes(path, Len(NodeAt(path).children)),
              LAMBDA q : NodeAt(q).kind = kind)

TopLevelOfKind(kind) ==
    SelectSeq(Indexes(<<>>, Len(project.reflections)),
              LAMBDA q : NodeAt(q).kind = kind)

Kept(paths) == SelectSeq(paths, PassesRule)

ParametersOf(path) ==
    IF NodeAt(path).parameters = None THEN <<>>
    ELSE Indexes(path, Len(Get(NodeAt(path).parameters)))

\* t is s without its leading and trailing white space
IsTrimOf(t, s) ==
    \E i, j \in 0..Len(s) :
        /\ i + j <= Len(s)
        /\ t = SubSeq(s, i + 1, Len(s) - j)
        /\ \A k \in 1..i : IsSpace(s[k])
        /\ \A k \in (Len(s) - j + 1)..Len(s) : IsSpace(s[k])
        /\ t = <<>> \/ (~IsSpace(t[1]) /\ ~IsSpace(t[Len(t)]))

TagsNamed(comment, tagName) ==
    IF comment = None \/ Get(comment).tags = None THEN <<>>
    ELSE SelectSeq(Get(Get(comment).tags), LAMBDA tag : tag.tagName = tagName)

(***************************************************************************)
(* C1: a method child, a property child or a top-level interface/class is  *)
(* in its parent's mapped children (methods, properties, the visitProject  *)
(* result) exactly when its isExported flag is true or                      *)
(* options.includeNonExported is true.                                     *)
(***************************************************************************)
C1_FilterByExport ==
    /\ \A n \in Completions : LET ev == events[n] IN
           ev.fn = "visitInterface" =>
               /\ Names(Get(ev.entry).methods)
                      = NamesAt(Kept(ChildrenOfKind(ev.path, "Method")))
               /\ Names(Get(ev.entry).properties)
                      = NamesAt(Kept(ChildrenOfKind(ev.path, "Property")))
    /\ pc = "returned" =>
           Elements(Names(outcome.value))
               = Elements(NamesAt(Kept(TopLevelOfKind("Interface"))))
                 \cup Elements(NamesAt(Kept(TopLevelOfKind("Class"))))

\* an interface was mapped without its non-exported property and without its
\* property whose isExported is absent, and a non-exported class was left out
C1_Witness ==
    /\ pc = "returned"
    /\ options.includeNonExported = None
    /\ \E i \in 1..Len(project.reflections) :
           /\ project.reflections[i].kind = "Class"
           /\ ~IsExportedTrue(<<i>>)
           /\ project.reflections[i].name \notin Elements(Names(outcome.value))
    /\ \E n \in Completions : LET ev == events[n] IN
           /\ ev.fn = "visitInterface"
           /\ Names(Get(ev.entry).properties) = <<"shown">>
           /\ Len(ChildrenOfKind(ev.path, "Property")) = 3

C3_InterfacesThenClasses ==
    pc = "returned" =>
        LET out == outcome.value
            interfaces == Kept(TopLevelOfKind("Interface"))
            classes == Kept(TopLevelOfKind("Class"))
        IN  /\ Names(out) = NamesAt(interfaces) \o NamesAt(classes)
            /\ \A i \in 1..Len(out) :
                   out[i].kind = IF i <= Len(interfaces) THEN "Interface" ELSE "Class"
            /\ \A i, j \in 1..Len(out) :
                   (i < j /\ out[i].kind = "Class") => out[j].kind = "Class"

\* the project reports a class before an interface and both are returned
C3_Witness ==
    /\ pc = "returned"
    /\ Len(project.reflections) >= 2
    /\ project.reflections[1].kind = "Class"
    /\ project.reflections[2].kind = "Interface"
    /\ Len(outcome.value) = 2
    /\ outcome.value[1].name = project.reflections[2].name
    /\ outcome.value[2].name = project.reflections[1].name

(***************************************************************************)
(* C4: for every reflection that has flags, the derived isDeprecated is    *)
(* absent when its comment has no @deprecated tag, true when the first     *)
(* @deprecated tag's text is empty after trimming, and the trimmed text    *)
(* otherwise.                                                              *)
(***************************************************************************)
C4_IsDeprecated ==
    \A n \in Completions : LET ev == events[n] IN
        Get(ev.entry).flags # None =>
            LET tags == TagsNamed(NodeAt(ev.path).comment, "deprecated")
                isDeprecated == Get(Get(ev.entry).flags).isDeprecated
            IN  IF tags = <<>> THEN isDeprecated = None
                ELSE IF IsTrimOf(<<>>, tags[1].text) THEN isDeprecated = Some(JsTrue)
                ELSE /\ isDeprecated # None
                     /\ Get(isDeprecated).type = "string"
                     /\ IsTrimOf(Get(isDeprecated).str, tags[1].text)

\* a tag text with white space around it became the trimmed reason
C4_Witness ==
    \E n \in Completions : LET ev == events[n] IN
        /\ Get(ev.entry).flags # None
        /\ TagsNamed(NodeAt(ev.path).comment, "deprecated")
               = << Tag("deprecated", <<" ", "use", " ", "bar", "\n">>) >>
        /\ Get(Get(ev.entry).flags).isDeprecated = Some(JsString(<<"use", " ", "bar">>))

(***************************************************************************)
(* C5: for every property and parameter, the derived defaultValue is the   *)
(* explicit default value verbatim when there is one, else the trimmed     *)
(* text of the comment's @default tag when there is one, else absent.      *)
(***************************************************************************)
C5_DefaultValue ==
    \A n \in Completions : LET ev == events[n] IN
        ev.fn \in {"visitProperty", "visitParameter"} =>
            LET def == NodeAt(ev.path)
                tags == TagsNamed(def.comment, "default")
                defaultValue == Get(ev.entry).defaultValue
            IN  IF def.defaultValue # None THEN defaultValue = def.defaultValue
                ELSE IF tags # <<>>
                THEN defaultValue # None /\ IsTrimOf(Get(defaultValue), tags[1].text)
                ELSE defaultValue = None

\* an explicit default value won over a @default tag with another text
C5_Witness ==
    \E n \in Completions : LET ev == events[n] IN
        /\ ev.fn \in {"visitProperty", "visitParameter"}
        /\ NodeAt(ev.path).defaultValue = Some(<<"v">>)
        /\ TagsNamed(NodeAt(ev.path).comment, "default")
               = << Tag("default", <<" ", " ", "42", " ", " ">>) >>
        /\ Get(ev.entry).defaultValue = Some(<<"v">>)

(***************************************************************************)
(* C6: the text handed to the renderer                                     *)
(***************************************************************************)
RECURSIVE TagLines(_)
TagLines(tags) ==
    IF tags = <<>> THEN <<>>
    ELSE LET rest == TagLines(Tail(tags))
             line == <<"@", Head(tags).tagName, " ">> \o Head(tags).text
         IN  IF Head(tags).tagName \in {"default", "deprecated"} THEN rest
             ELSE IF rest = <<>> THEN line
             ELSE line \o <<"\n">> \o rest

StatedText(comment, withTagBlock) ==
    comment.shortText
    \o (IF comment.text # <<>> THEN <<"\n", "\n">> \o comment.text ELSE <<>>)
    \o (IF withTagBlock THEN <<"\n", "\n">> \o TagLines(Get(comment.tags)) ELSE <<>>)

ExampleComment ==
    Comment(<<"S">>, <<"T">>,
            Some(<< Tag("deprecated", <<>>),
                    Tag("param", <<"x:", " ", "the", " ", "value">>) >>))

ExampleText ==
    <<"S", "\n", "\n", "T", "\n", "\n", "@", "param", " ", "x:", " ", "the", " ", "value">>

RenderedAs(ev, emptyListCounts) ==
    LET comment == NodeAt(ev.path).comment
        withTagBlock ==
            /\ Get(comment).tags # None
            /\ emptyListCounts \/ Get(Get(comment).tags) # <<>>
    IN  IF comment = None
        THEN /\ Get(ev.entry).documentation = None
             /\ \A r \in RenderIndexes : rendered[r].path # ev.path
        ELSE /\ Get(ev.entry).documentation
                    = Some(renderBlock(StatedText(Get(comment), withTagBlock)))
             /\ \E r \in RenderIndexes :
                    /\ rendered[r].path = ev.path
                    /\ rendered[r].text = StatedText(Get(comment), withTagBlock)
             /\ Get(comment) = ExampleComment =>
                    Get(ev.entry).documentation = Some(renderBlock(ExampleText))


(***************************************************************************)
(* C6 as stated: the text is the short text, then, only if there is long   *)
(* text, a blank line and the long text, then, only if there are tags, a   *)
(* blank line and one line `@tagName tagText` per tag other than @default  *)
(* and @deprecated; without a comment the renderer is not called.          *)
(***************************************************************************)
C6_TextOnlyIfTags == \A n \in Completions : LET ev == events[n] IN RenderedAs(ev, FALSE)

(***************************************************************************)
(* C6 amended: as stated, except that the blank line and the tag lines are *)
(* appended whenever the comment has a tag list, an empty list included.   *)
(***************************************************************************)
C6_TextIfTagList == \A n \in Completions : LET ev == events[n] IN RenderedAs(ev, TRUE)

\* the documented example was rendered from exactly the documented text
C6_Witness ==
    \E n \in Completions : LET ev == events[n] IN
        /\ NodeAt(ev.path).comment = Some(ExampleComment)
        /\ Get(ev.entry).documentation = Some(renderBlock(ExampleText))
        /\ \E r \in RenderIndexes :
               rendered[r].path = ev.path /\ rendered[r].text = ExampleText

(***************************************************************************)
(* C7: visitProject raises no error, whatever data is missing on the       *)
(* reflections of the graph.                                               *)
(***************************************************************************)
C7_NoErrorRaised == pc # "threw"

(***************************************************************************)
(* C8: a second visitProject call on the same Visitor and the same graph   *)
(* ends as the first one did, with an identical output sequence, and no    *)
(* step of a visit changes the graph or the options.                       *)
(***************************************************************************)
C8_SameOutputTwice ==
    /\ [](visits >= 2 /\ pc \in {"returned", "threw"} => outcome = prevOutcome)
    /\ [][project' = project /\ options' = options]_vars

\* two calls have returned and the output is not empty
C8_Witness ==
    /\ visits = 2
    /\ pc = "returned"
    /\ prevOutcome.status = "returned"
    /\ Len(outcome.value) > 0
    /\ Len(outcome.value[1].methods) > 0

(***************************************************************************)
(* C9: an entry is completed only after all entries of its children are    *)
(* completed, every entry of an interface is completed before the visit of *)
(* any class starts, and a completed entry is part of its parent's entry   *)
(* (and of the returned sequence) unchanged.                               *)
(***************************************************************************)
\* child is an event of a visit made from within the visit that parent is an event of
IsInner(child, parent) ==
    \/ /\ Len(child.path) = Len(parent.path) + 1
       /\ Front(child.path) = parent.path
    \/ /\ parent.fn = "visitClass"
       /\ child.fn = "visitInterface"
       /\ child.path = parent.path

ChildList(parent, child) ==
    IF child.fn = "visitMethod" THEN Get(parent.entry).methods
    ELSE IF child.fn = "visitProperty" THEN Get(parent.entry).properties
    ELSE IF child.fn = "visitSignature" THEN Get(parent.entry).signatures
    ELSE Get(parent.entry).parameters

C9_BottomUp ==
    /\ \A i \in EventIndexes :
           events[i].ev = "complete" =>
               \A j \in EventIndexes :
                   IsInner(events[j], events[i]) =>
                       /\ j < i
                       /\ events[j].ev = "start" =>
                              \E k \in (j + 1)..(i - 1) :
                                  /\ events[k].ev = "complete"
                                  /\ events[k].fn = events[j].fn
                                  /\ events[k].path = events[j].path
                       /\ (events[j].ev = "complete" /\ Len(events[j].path) >= 2) =>
                              Get(events[j].entry) \in Elements(ChildList(events[i], events[j]))
    /\ \A j \in EventIndexes :
           events[j].fn = "visitClass" =>
               \A i \in EventIndexes :
                   (events[i].fn = "visitInterface" /\ Len(events[i].path) = 1
                    /\ NodeAt(events[i].path).kind = "Interface")
                       => i < j
    /\ pc = "returned" =>
           \A i \in EventIndexes :
               (/\ events[i].ev = "complete"
                /\ Len(events[i].path) = 1
                /\ events[i].fn = (IF NodeAt(events[i].path).kind = "Class"
                                   THEN "visitClass" ELSE "visitInterface"))
                   => Get(events[i].entry) \in Elements(outcome.value)

\* a call returned an interface and a class, each with a visited parameter
C9_Witness ==
    /\ pc = "returned"
    /\ \E na, nb, nc, nd \in Completions :
           LET a == events[na]
               b == events[nb]
               c == events[nc]
               d == events[nd]
           IN
           /\ a.fn = "visitInterface" /\ NodeAt(a.path).kind = "Interface"
           /\ b.fn = "visitClass"
           /\ c.fn = "visitParameter" /\ c.path[1] = a.path[1]
           /\ d.fn = "visitParameter" /\ d.path[1] = b.path[1]

(***************************************************************************)
(* C10: nothing is visited or rendered below a reflection that the filter  *)
(* rejects: every entry started and every renderBlock call belongs to a    *)
(* reflection whose interface/class and whose method/property (itself      *)
(* included) pass the filter.                                              *)
(***************************************************************************)
ChainIncluded(path) ==
    \A n \in 1..Len(path) : n <= 2 => PassesRule(SubSeq(path, 1, n))

C10_RejectedNeverVisited ==
    /\ \A n \in EventIndexes : ChainIncluded(events[n].path)
    /\ \A n \in RenderIndexes : ChainIncluded(rendered[n].path)

\* a call returned entries while a rejected interface or class, with a comment
\* and an exported member that has a comment, was in the project
C10_Witness ==
    /\ pc = "returned"
    /\ events # <<>>
    /\ \E i \in 1..Len(project.reflections) :
           /\ project.reflections[i].kind \in {"Interface", "Class"}
           /\ ~PassesRule(<<i>>)
           /\ project.reflections[i].comment # None
           /\ \E k \in 1..Len(project.reflections[i].children) :
                  /\ PassesRule(<<i, k>>)
                  /\ project.reflections[i].children[k].comment # None

====
